---- MODULE Spec2Model ----
(***************************************************************************)
(* Persistence and association-management layer of medi-bridge-api.        *)
(*                                                                         *)
(* These state machines share this module:                                 *)
(*   Spec         the relational store (app/models/sqlite_db.py schema)    *)
(*                driven by the CRUD services of app/services/             *)
(*                sqlite_crud.py, each caller on its own session, one      *)
(*                await (storage round trip) per step;                     *)
(*   SpecSeq      the same store and services with one caller;             *)
(*   SpecQuery    one caller updating, listing and reading back stores     *)
(*                that earlier calls have populated;                       *)
(*   SpecWrapper  SQLiteClientWrapper (lazy engine / session factory),     *)
(*                driven by concurrent asyncio tasks.                      *)
(***************************************************************************)
EXTENDS Integers, FiniteSets, Sequences, TLC

VARIABLES db, sess, engine, session_factory, initialized, engines_created, create_all_runs, task

vars == <<db, sess, engine, session_factory, initialized, engines_created, create_all_runs, task>>

dbvars == <<db, sess>>

wrappervars == <<engine, session_factory, initialized, engines_created, create_all_runs, task>>

(***************************************************************************)
(* Bounds                                                                  *)
(***************************************************************************)
\* largest id a row of a root table (or a message) may get
MaxId == 2

\* largest id a junction row may get
MaxAssocId == 2

\* number of concurrent callers, each with its own session
NumSessions == 2

\* number of asyncio tasks that use SQLiteClientWrapper concurrently
NumTasks == 2

Tasks == 1..NumTasks

\* number of engines create_async_engine may build in one run
MaxEngines == 3

\* largest number of rows of one table in the stores the queries are run on
MaxRows == 3

Sessions == 1..NumSessions

\* values of the descriptive column (name; title of a conversation; content
\* of a message)
Names == {"a"}

\* ids a caller may pass; each of them is absent from its table in some states
ArgIds == 1..MaxId

ArgAssocIds == 1..MaxAssocId

None == "None"

(***************************************************************************)
(* Schema                                                                  *)
(***************************************************************************)
RootTables == {"conditions", "exclusion_methods", "treatment_plans", "conversations", "sympgan_diseases", "sympgan_symptoms"}

JunctionTables == {"condition_exclusion_methods", "condition_treatment_plans", "sympgan_disease_symptom_associations"}

Tables == RootTables \cup JunctionTables \cup {"messages"}

\* ForeignKey(..., ondelete="CASCADE") columns; PRAGMA foreign_keys=ON makes
\* the storage engine enforce them on insert and cascade them on delete.
CondFKs == {[table |-> "condition_exclusion_methods", column |-> "condition_id", parent |-> "conditions"], [table |-> "condition_exclusion_methods", column |-> "exclusion_method_id", parent |-> "exclusion_methods"], [table |-> "condition_treatment_plans", column |-> "condition_id", parent |-> "conditions"], [table |-> "condition_treatment_plans", column |-> "treatment_plan_id", parent |-> "treatment_plans"]}

\* the models Conversation, Message, SympganDisease, SympganSymptom and
\* SympganDiseaseSymptomAssociation are imported by the services but their
\* definitions are not part of the source tree; their keys follow spec.md 3.
OtherFKs == {[table |-> "messages", column |-> "conversation_id", parent |-> "conversations"], [table |-> "sympgan_disease_symptom_associations", column |-> "disease_id", parent |-> "sympgan_diseases"], [table |-> "sympgan_disease_symptom_associations", column |-> "symptom_id", parent |-> "sympgan_symptoms"]}

ForeignKeys == CondFKs \cup OtherFKs

\* (variant: the pragma is never issued)
ForeignKeysOff == FALSE

\* set_sqlite_pragma: PRAGMA foreign_keys=ON on every connection
ForeignKeysOn == TRUE

\* tables whose (left, right) pair carries a storage-level unique constraint.
\* ConditionExclusionMethod and ConditionTreatmentPlan declare none.
CondUniquePairs == {}

\* spec.md 3: DiseaseSymptomAssociation "pair is unique"
OtherUniquePairs == {[table |-> "sympgan_disease_symptom_associations", left |-> "disease_id", right |-> "symptom_id"]}

UniquePairs == CondUniquePairs \cup OtherUniquePairs

TaxonomyTables == {"sympgan_diseases", "sympgan_symptoms"}

\* spec.md 3: a disease / symptom carries an "external unique code (CUI)"
OtherUniqueColumns == {[table |-> "sympgan_diseases", column |-> "cui"], [table |-> "sympgan_symptoms", column |-> "cui"]}

\* text columns declared nullable=False that an update schema lets a caller
\* set to null (Optional[str] fields of ConditionUpdate and its copies)
NotNullColumns == {"name", "description"}

\* number of distinct CUI codes a caller may supply
MaxCui == 2

Cuis == 1..MaxCui

\* what a caller supplies to create a row of root table t (XCreate schemas);
\* "description" stands for the descriptive columns other than the name
Inputs(t, N, D) == IF t \in TaxonomyTables THEN [cui : Cuis, name : N, description : D] ELSE [name : N, description : D]

\* payload of a condition/treatment-plan link (ConditionTreatmentPlanCreate);
\* the first is the schema's default
Payloads == {[is_primary |-> FALSE, priority |-> 0, notes |-> None], [is_primary |-> TRUE, priority |-> 1, notes |-> "n"]}

NoPayload == [is_primary |-> FALSE, priority |-> 0, notes |-> None]

Sources == {None, "src"}

(***************************************************************************)
(* Storage engine                                                          *)
(***************************************************************************)
Ids(rows) == {r.id : r \in rows}

Max(S) == CHOOSE m \in S : \A n \in S : n <= m

\* Integer primary key without the AUTOINCREMENT keyword: SQLite hands out
\* the largest rowid in the table plus one
NextId(rows) == IF rows = {} THEN 1 ELSE Max(Ids(rows)) + 1

IdCap(t) == IF t \in JunctionTables THEN MaxAssocId ELSE MaxId

Row(rows, id) == CHOOSE r \in rows : r.id = id

FKOk(d, t, row) == \A fk \in ForeignKeys : (fk.table = t /\ ForeignKeysOn) => row[fk.column] \in Ids(d[fk.parent])

UniqueOk(d, t, row) ==
    /\ \A u \in UniquePairs : u.table = t => ~(\E r \in d[t] : r.id # row.id /\ r[u.left] = row[u.left] /\ r[u.right] = row[u.right])
    /\ \A u \in OtherUniqueColumns : u.table = t => ~(\E r \in d[t] : r.id # row.id /\ r[u.column] = row[u.column])

\* NOT NULL columns hold a value
NotNullOk(row) == \A c \in NotNullColumns \cap DOMAIN row : row[c] # None

\* INSERT: the statement fails (IntegrityError) unless every constraint holds
CanInsert(d, t, row) == FKOk(d, t, row) /\ UniqueOk(d, t, row) /\ NotNullOk(row)

\* default=lambda: datetime.utcnow() at insert: a time later than that of
\* every stored row of the table (time is kept up to order)
Now(rows, col) == IF rows = {} THEN 1 ELSE Max({r[col] : r \in rows}) + 1

\* the row an insert of data into root table t stores: id and timestamps
\* are generated (updated_at: 0 at creation, 1 once an UPDATE has run)
NewRowUnnamed(d, t, data) ==
    IF t \in TaxonomyTables THEN [id |-> NextId(d[t]), cui |-> data.cui, name |-> "a", description |-> data.description, updated_at |-> 0]
    ELSE IF t = "conversations" THEN [id |-> NextId(d[t]), name |-> "a", description |-> data.description, updated_at |-> 0, started_at |-> Now(d[t], "started_at")]
    ELSE [id |-> NextId(d[t]), name |-> "a", description |-> data.description, updated_at |-> 0]

NewRow(d, t, data) ==
    IF t \in TaxonomyTables THEN [id |-> NextId(d[t]), cui |-> data.cui, name |-> data.name, description |-> data.description, updated_at |-> 0]
    ELSE IF t = "conversations" THEN [id |-> NextId(d[t]), name |-> data.name, description |-> data.description, updated_at |-> 0, started_at |-> Now(d[t], "started_at")]
    ELSE [id |-> NextId(d[t]), name |-> data.name, description |-> data.description, updated_at |-> 0]

Inserted(d, t, row) == [d EXCEPT ![t] = @ \cup {row}]

\* rows of table u that reference row id of table t
Referencing(d, u, t, id) == {r \in d[u] : \E fk \in ForeignKeys : fk.table = u /\ fk.parent = t /\ r[fk.column] = id}

\* (variant: the DELETE removes no row)
DeletedNothing(d, t, id) == d

\* (variant: the DELETE has no WHERE clause)
DeletedWholeTable(d, t, id) == [d EXCEPT ![t] = {}]

\* (variant: the parent row alone is deleted)
DeletedParentOnly(d, t, id) == [d EXCEPT ![t] = {r \in @ : r.id # id}]

\* DELETE of a parent row: the ORM deletes the loaded children
\* (cascade="all, delete-orphan") and ON DELETE CASCADE removes the rest
Deleted(d, t, id) == [u \in Tables |-> IF u = t THEN {r \in d[u] : r.id # id} ELSE d[u] \ Referencing(d, u, t, id)]

\* the tables whose rows the flush of session.delete(parent) deletes with it
Cascaded(d, t, id) == {u \in Tables : Referencing(d, u, t, id) # {}}

(***************************************************************************)
(* Sessions: one service call at a time, one await per step                *)
(***************************************************************************)
Idle == [op |-> "none", pc |-> "idle", t |-> "none", a |-> 0, b |-> 0, x |-> NoPayload, src |-> None, outcome |-> "none", ret |-> 0, cascaded |-> {}, page |-> <<>>, total |-> 0, data |-> <<>>, skip |-> 0, limit |-> 0, pending_rollback |-> FALSE]

\* a session takes a call when it runs none; a session whose flush failed
\* refuses every statement (PendingRollbackError) until it is rolled back
Free(s) == sess[s].pc \in {"idle", "done"} /\ ~sess[s].pending_rollback

\* Bound on the explored store: the tables of one family only are populated
\* at a time. The families share no row, and no service call reaches outside
\* the family of the table it is called for.
Scoped(Fams, t) == \E F \in Fams : /\ t \in F
                                    /\ \A s \in Sessions : (sess[s].pc = "idle" \/ sess[s].t \in F)
                                    /\ \A u \in Tables \ F : db[u] = {}

Call(s, op, t, a, b, x, src, pc) == [Idle EXCEPT !.op = op, !.pc = pc, !.t = t, !.a = a, !.b = b, !.x = x, !.src = src]

\* the call is over: what the caller holds is the value returned or the error
\* raised, no longer the arguments
Return(c, outcome, ret) == [Idle EXCEPT !.op = c.op, !.t = c.t, !.pc = "done", !.outcome = outcome, !.ret = ret, !.pending_rollback = c.pending_rollback]

\* a flush (commit) that raised leaves the session's transaction inactive
FlushFailed(c) == [c EXCEPT !.pending_rollback = TRUE]

\* (variant: the handler does not roll back)
RollbackSkipped(c) == c

\* "except Exception: await session.rollback()"
Rollback(c) == [c EXCEPT !.pending_rollback = FALSE]

\* "raise SQLiteServiceError(f'Failed to ...: {e}') from e" after the rollback
Failed(c) == Return(Rollback(FlushFailed(c)), "failed", 0)

ErrorOutcomes == {"not_found", "already_exists", "failed"}

\* the exception a call that ends with an error outcome raises: always a
\* SQLiteServiceError (code 500); the outcomes differ in the message
Raised(outcome) == [type |-> "SQLiteServiceError", code |-> 500,
                    message |-> CASE outcome = "not_found" -> "... not found" [] outcome = "already_exists" -> "Association already exists" [] OTHER -> "Failed to ..."]

\* result.scalars().first() of "select ... where id = :id": the row or None,
\* as a set of at most one row
Get(d, t, id) == {r \in d[t] : r.id = id}

\* select(junction).where(left == a, right == b)
Pair(d, t, lcol, rcol, a, b) == {r \in d[t] : r[lcol] = a /\ r[rcol] = b}

(***************************************************************************)
(* Root entity repositories                                                *)
(***************************************************************************)
\* ConditionService.create and its copies: add, commit, refresh
Create(s, t, data) ==
    /\ Free(s)
    /\ NextId(db[t]) <= IdCap(t)
    /\ LET row == NewRow(db, t, data)
           c == Call(s, "create", t, 0, 0, NoPayload, None, "commit")
       IN IF CanInsert(db, t, row)
          THEN /\ db' = Inserted(db, t, row)
               /\ sess' = [sess EXCEPT ![s] = Return(c, "ok", row.id)]
          ELSE /\ db' = db
               /\ sess' = [sess EXCEPT ![s] = Failed(c)]
    /\ UNCHANGED wrappervars

\* delete, first await: X.get(session, id); "if not x: return False"
DeleteGet(s, t, id) ==
    /\ Free(s)
    /\ LET c == Call(s, "delete", t, id, 0, NoPayload, None, "commit")
       IN sess' = [sess EXCEPT ![s] = IF Get(db, t, id) = {} THEN [Return(c, "false", 0) EXCEPT !.a = id] ELSE c]
    /\ UNCHANGED <<db, wrappervars>>

\* delete, second part: session.delete(x); commit; return True
DeleteCommit(s) ==
    /\ sess[s].op = "delete" /\ sess[s].pc = "commit"
    /\ db' = Deleted(db, sess[s].t, sess[s].a)
    /\ sess' = [sess EXCEPT ![s] = [Return(@, "true", 0) EXCEPT !.a = sess[s].a, !.cascaded = Cascaded(db, sess[s].t, sess[s].a)]]
    /\ UNCHANGED wrappervars

\* get_db_session: leaving "async with" closes the caller's session
Release(s) ==
    /\ sess[s].pc = "done"
    /\ sess' = [sess EXCEPT ![s] = Idle]
    /\ UNCHANGED <<db, wrappervars>>

(***************************************************************************)
(* Association managers                                                    *)
(***************************************************************************)
\* first await of every add_association / create_association and of
\* MessageService.create: the left endpoint must exist
CheckLeft(s, op, t, parent, a, b, x, src, nextpc) ==
    /\ Free(s)
    /\ LET c == Call(s, op, t, a, b, x, src, nextpc)
       IN sess' = [sess EXCEPT ![s] = IF Get(db, parent, a) = {} THEN Return(c, "not_found", 0) ELSE c]
    /\ UNCHANGED <<db, wrappervars>>

\* (variant: the right endpoint is not looked up)
CheckRightUnchecked(s, op, parent, nextpc) ==
    /\ sess[s].op = op /\ sess[s].pc = "get_right"
    /\ sess' = [sess EXCEPT ![s] = [@ EXCEPT !.pc = nextpc]]
    /\ UNCHANGED <<db, wrappervars>>

\* second await: the right endpoint must exist
CheckRight(s, op, parent, nextpc) ==
    /\ sess[s].op = op /\ sess[s].pc = "get_right"
    /\ sess' = [sess EXCEPT ![s] = IF Get(db, parent, @.b) = {} THEN Return(@, "not_found", 0) ELSE [@ EXCEPT !.pc = nextpc]]
    /\ UNCHANGED <<db, wrappervars>>

\* session.add(row); commit; refresh. A storage exception is caught,
\* rolled back and re-raised as SQLiteServiceError("Failed to ...")
InsertCommit(s, op, row) ==
    /\ sess[s].op = op /\ sess[s].pc = "commit"
    /\ row.id <= IdCap(sess[s].t)
    /\ IF CanInsert(db, sess[s].t, row)
       THEN /\ db' = Inserted(db, sess[s].t, row)
            /\ sess' = [sess EXCEPT ![s] = Return(@, "ok", row.id)]
       ELSE /\ db' = db
            /\ sess' = [sess EXCEPT ![s] = Failed(@)]
    /\ UNCHANGED wrappervars

AddCemGetCondition(s, c, m) == CheckLeft(s, "add_cem", "condition_exclusion_methods", "conditions", c, m, NoPayload, None, "get_right")

AddCemGetMethod(s) == CheckRight(s, "add_cem", "exclusion_methods", "check_existing")

\* (variant: the existing pair is not looked up)
AddCemCheckExistingSkipped(s) ==
    /\ sess[s].op = "add_cem" /\ sess[s].pc = "check_existing"
    /\ sess' = [sess EXCEPT ![s] = [@ EXCEPT !.pc = "commit"]]
    /\ UNCHANGED <<db, wrappervars>>

\* "Check if association already exists": raise "Association already exists"
AddCemCheckExisting(s) ==
    /\ sess[s].op = "add_cem" /\ sess[s].pc = "check_existing"
    /\ sess' = [sess EXCEPT ![s] = IF Pair(db, "condition_exclusion_methods", "condition_id", "exclusion_method_id", @.a, @.b) # {} THEN Return(@, "already_exists", 0) ELSE [@ EXCEPT !.pc = "commit"]]
    /\ UNCHANGED <<db, wrappervars>>

AddCemCommit(s) == InsertCommit(s, "add_cem", [id |-> NextId(db["condition_exclusion_methods"]), condition_id |-> sess[s].a, exclusion_method_id |-> sess[s].b])

AddCtpGetCondition(s, c, p, x) == CheckLeft(s, "add_ctp", "condition_treatment_plans", "conditions", c, p, x, None, "get_right")

\* no lookup of an existing pair follows the two endpoint checks
AddCtpGetPlan(s) == CheckRight(s, "add_ctp", "treatment_plans", "commit")

AddCtpCommit(s) == InsertCommit(s, "add_ctp", [id |-> NextId(db["condition_treatment_plans"]), condition_id |-> sess[s].a, treatment_plan_id |-> sess[s].b, is_primary |-> sess[s].x.is_primary, priority |-> sess[s].x.priority, notes |-> sess[s].x.notes])

\* remove_association, first await: select by the junction row's own id
RemoveGet(s, t, id) ==
    /\ Free(s)
    /\ LET c == Call(s, "remove", t, id, 0, NoPayload, None, "commit")
       IN sess' = [sess EXCEPT ![s] = IF Get(db, t, id) = {} THEN [Return(c, "false", 0) EXCEPT !.a = id] ELSE c]
    /\ UNCHANGED <<db, wrappervars>>

\* remove_association, second part: session.delete(association); commit
RemoveCommit(s) ==
    /\ sess[s].op = "remove" /\ sess[s].pc = "commit"
    /\ db' = Deleted(db, sess[s].t, sess[s].a)
    /\ sess' = [sess EXCEPT ![s] = [Return(@, "true", 0) EXCEPT !.a = sess[s].a]]
    /\ UNCHANGED wrappervars

(***************************************************************************)
(* Disease / symptom associations                                          *)
(***************************************************************************)
\* Result of session.execute(select ...): the rows not yet fetched, and
\* whether the result has been closed
Executed(rows) == [rows |-> rows, closed |-> FALSE]

\* what a fetch from a closed Result can do: raise ResourceClosedError, or
\* find nothing left to fetch
ClosedFetch == {"raise", "none"}

\* result.scalars().first(): the first row or None (a set of at most one
\* row); it closes the result and discards the remaining rows
First(res, closed_fetch) ==
    IF res.closed
    THEN [raised |-> closed_fetch = "raise", value |-> {}, res |-> res]
    ELSE [raised |-> FALSE, value |-> {r \in res.rows : \A q \in res.rows : r.id <= q.id}, res |-> [rows |-> {}, closed |-> TRUE]]

CreateAssociationGetDisease(s, d, y, src) == CheckLeft(s, "create_dsa", "sympgan_disease_symptom_associations", "sympgan_diseases", d, y, NoPayload, src, "get_right")

CreateAssociationGetSymptom(s) == CheckRight(s, "create_dsa", "sympgan_symptoms", "check_existing")

\* "Check if association already exists": "if result.scalars().first():
\* return result.scalars().first()" fetches twice from the same result
CreateAssociationCheckExisting(s, closed_fetch) ==
    /\ sess[s].op = "create_dsa" /\ sess[s].pc = "check_existing"
    /\ LET result == Executed(Pair(db, "sympgan_disease_symptom_associations", "disease_id", "symptom_id", sess[s].a, sess[s].b))
           f1 == First(result, closed_fetch)
           f2 == First(f1.res, closed_fetch)
       IN sess' = [sess EXCEPT ![s] =
                     IF f1.value = {} THEN [@ EXCEPT !.pc = "commit"]
                     ELSE IF f2.raised THEN Return(@, "failed", 0)
                     ELSE IF f2.value = {} THEN Return(@, "none", 0)
                     ELSE Return(@, "ok", Max(Ids(f2.value)))]
    /\ UNCHANGED <<db, wrappervars>>

CreateAssociationCommit(s) == InsertCommit(s, "create_dsa", [id |-> NextId(db["sympgan_disease_symptom_associations"]), disease_id |-> sess[s].a, symptom_id |-> sess[s].b, source |-> sess[s].src])

(***************************************************************************)
(* Conversations and messages                                              *)
(***************************************************************************)
\* MessageService.create, first await: the conversation must exist
MessageCreateGetConversation(s, c, n) == CheckLeft(s, "create_message", "messages", "conversations", c, 0, NoPayload, n, "commit")

MessageCreateCommit(s) == InsertCommit(s, "create_message", [id |-> NextId(db["messages"]), conversation_id |-> sess[s].a, name |-> sess[s].src, sent_at |-> Now(db["messages"], "sent_at")])

\* MessageService.get
MessageGet(d, id) == Get(d, "messages", id)

\* MessageService.list_by_conversation: the count query
MessageCount(d, c) == Cardinality({m \in d["messages"] : m.conversation_id = c})

\* (variant: the conversation is not looked up first)
ListConversationMessagesUnchecked(d, c) == [status |-> 200, total |-> MessageCount(d, c)]

\* GET /conversations/{id}/messages: 404 unless the conversation exists
ListConversationMessages(d, c) == IF Get(d, "conversations", c) = {} THEN [status |-> 404, total |-> 0] ELSE [status |-> 200, total |-> MessageCount(d, c)]

(***************************************************************************)
(* Updates                                                                 *)
(***************************************************************************)
\* the columns of data whose value differs from the loaded row's: the ORM
\* emits an UPDATE only for net changes
Changed(row, data) == {c \in DOMAIN data : data[c] # row[c]}

\* (variant: every column is overwritten, the missing ones with null)
AppliedAll(row, data) == [c \in DOMAIN row |-> IF c \in DOMAIN data THEN data[c] ELSE IF c \in {"id", "updated_at", "condition_id", "treatment_plan_id", "priority", "is_primary"} THEN row[c] ELSE None]

\* "for field, value in update_data.items(): setattr(row, field, value)"
\* and the flush: the supplied columns are replaced; a row with an
\* updated_at column gets a new one (onupdate) when an UPDATE is emitted
Applied(row, data) == [c \in DOMAIN row |-> IF c \in DOMAIN data THEN data[c] ELSE IF c = "updated_at" /\ Changed(row, data) # {} THEN 1 ELSE row[c]]

\* update / update_association, first await: load the row by id;
\* "if not x: return None"; data is data.model_dump(exclude_unset=True)
UpdateGet(s, op, t, id, data) ==
    /\ Free(s)
    /\ LET c == [Call(s, op, t, id, 0, NoPayload, None, "commit") EXCEPT !.data = data]
       IN sess' = [sess EXCEPT ![s] = IF Get(db, t, id) = {} THEN Return(c, "none", 0) ELSE c]
    /\ UNCHANGED <<db, wrappervars>>

\* update / update_association, second part: setattr, commit, refresh;
\* "except Exception: rollback; raise SQLiteServiceError". The row is taken
\* as stored at the commit (no other caller writes in between)
UpdateCommit(s, op) ==
    /\ sess[s].op = op /\ sess[s].pc = "commit"
    /\ LET t == sess[s].t
           old == Get(db, t, sess[s].a)
       IN IF old = {}
          THEN /\ db' = db
               /\ sess' = [sess EXCEPT ![s] = Failed(@)]
          ELSE LET row == Row(db[t], sess[s].a)
                   new == Applied(row, sess[s].data)
               IN IF NotNullOk(new) /\ UniqueOk(db, t, new)
                  THEN /\ db' = [db EXCEPT ![t] = (@ \ {row}) \cup {new}]
                       /\ sess' = [sess EXCEPT ![s] = Return(@, "ok", new.id)]
                  ELSE /\ db' = db
                       /\ sess' = [sess EXCEPT ![s] = Failed(@)]
    /\ UNCHANGED wrappervars

(***************************************************************************)
(* Queries                                                                 *)
(***************************************************************************)
Min2(a, b) == IF a <= b THEN a ELSE b

\* the orders in which a statement without ORDER BY may return rows
Perms(S) == {f \in [1..Cardinality(S) -> S] : \A i, j \in 1..Cardinality(S) : i # j => f[i] # f[j]}

\* (variant: ORDER BY is dropped)
Unsorted(S, col, desc) == Perms(S)

\* (variant: DESC is ignored)
SortedAscending(S, col, desc) == {f \in Perms(S) : \A i, j \in 1..Cardinality(S) : i < j => f[i][col] <= f[j][col]}

\* ORDER BY col [DESC]: rows equal in col come in any order
Sorted(S, col, desc) == {f \in Perms(S) : \A i, j \in 1..Cardinality(S) : i < j => IF desc THEN f[i][col] >= f[j][col] ELSE f[i][col] <= f[j][col]}

\* (variant: the offset is ignored)
SliceNoOffset(f, skip, limit) == SubSeq(f, 1, Min2(Len(f), limit))

\* .offset(skip).limit(limit)
Slice(f, skip, limit) == SubSeq(f, skip + 1, Min2(Len(f), skip + limit))

\* the ORDER BY of each list(): ConversationService.list orders by
\* started_at descending, the others by id
OrderColumn(t) == IF t = "conversations" THEN "started_at" ELSE "id"

\* XService.list, first await: select(func.count()).select_from(X)
ListCount(s, t, skip, limit) ==
    /\ Free(s)
    /\ sess' = [sess EXCEPT ![s] = [Call(s, "list", t, 0, 0, NoPayload, None, "page") EXCEPT !.total = Cardinality(db[t]), !.skip = skip, !.limit = limit]]
    /\ UNCHANGED <<db, wrappervars>>

\* XService.list, second await: select(X).offset(skip).limit(limit).order_by(...)
ListPage(s) ==
    /\ sess[s].op = "list" /\ sess[s].pc = "page"
    /\ \E f \in Sorted(db[sess[s].t], OrderColumn(sess[s].t), sess[s].t = "conversations") :
          sess' = [sess EXCEPT ![s] = [@ EXCEPT !.pc = "done", !.outcome = "ok", !.page = Slice(f, sess[s].skip, sess[s].limit)]]
    /\ UNCHANGED <<db, wrappervars>>

\* MessageService.list_by_conversation, first await: the count of the
\* conversation's messages
ListByConversationCount(s, c, skip, limit) ==
    /\ Free(s)
    /\ sess' = [sess EXCEPT ![s] = [Call(s, "list_by_conversation", "messages", c, 0, NoPayload, None, "page") EXCEPT !.total = MessageCount(db, c), !.skip = skip, !.limit = limit]]
    /\ UNCHANGED <<db, wrappervars>>

\* second await: where(conversation_id == c).offset.limit.order_by(sent_at.asc())
ListByConversationPage(s) ==
    /\ sess[s].op = "list_by_conversation" /\ sess[s].pc = "page"
    /\ \E f \in Sorted({m \in db["messages"] : m.conversation_id = sess[s].a}, "sent_at", FALSE) :
          sess' = [sess EXCEPT ![s] = [@ EXCEPT !.pc = "done", !.outcome = "ok", !.page = Slice(f, sess[s].skip, sess[s].limit)]]
    /\ UNCHANGED <<db, wrappervars>>

\* select(Entity).join(Junction).where(Junction.col == id): one result row
\* per junction row with that endpoint whose other endpoint exists
JoinRows(d, jt, col, id, ecol, et) == {j \in d[jt] : j[col] = id /\ j[ecol] \in Ids(d[et])}

\* result.scalars().all() of the join: the entity of each junction row, in
\* the order js
Entities(d, et, ecol, js) == [i \in DOMAIN js |-> Row(d[et], js[i][ecol])]

\* XService.get(session, id): select(X).where(X.id == id), then
\* result.scalar_one_or_none(): the stored row or None
GetById(s, t, id) ==
    /\ Free(s)
    /\ LET found == Get(db, t, id)
       IN sess' = [sess EXCEPT ![s] = [Return(Call(s, "get", t, id, 0, NoPayload, None, "done"), IF found = {} THEN "none" ELSE "ok", 0)
                                          EXCEPT !.a = id, !.page = IF found = {} THEN <<>> ELSE <<Row(db[t], id)>>]]
    /\ UNCHANGED <<db, wrappervars>>

\* a list-by-endpoint call: one await, the entities in one of the orders
ListByEndpoint(s, op, jt, col, id, ecol, et, orders) ==
    /\ Free(s)
    /\ \E js \in orders :
          sess' = [sess EXCEPT ![s] = [Return(Call(s, op, jt, id, 0, NoPayload, None, "done"), "ok", 0) EXCEPT !.a = id, !.page = Entities(db, et, ecol, js)]]
    /\ UNCHANGED <<db, wrappervars>>

\* ConditionExclusionMethodService.get_condition_exclusion_methods: no ORDER BY
GetConditionExclusionMethods(s, c) == ListByEndpoint(s, "get_condition_exclusion_methods", "condition_exclusion_methods", "condition_id", c, "exclusion_method_id", "exclusion_methods", Perms(JoinRows(db, "condition_exclusion_methods", "condition_id", c, "exclusion_method_id", "exclusion_methods")))

\* ConditionTreatmentPlanService.get_condition_treatment_plans:
\* order_by(ConditionTreatmentPlan.priority.desc())
GetConditionTreatmentPlans(s, c) == ListByEndpoint(s, "get_condition_treatment_plans", "condition_treatment_plans", "condition_id", c, "treatment_plan_id", "treatment_plans", Sorted(JoinRows(db, "condition_treatment_plans", "condition_id", c, "treatment_plan_id", "treatment_plans"), "priority", TRUE))

\* SympganDiseaseSymptomAssociationService.get_symptoms_by_disease: no ORDER BY
GetSymptomsByDisease(s, d) == ListByEndpoint(s, "get_symptoms_by_disease", "sympgan_disease_symptom_associations", "disease_id", d, "symptom_id", "sympgan_symptoms", Perms(JoinRows(db, "sympgan_disease_symptom_associations", "disease_id", d, "symptom_id", "sympgan_symptoms")))

\* SympganDiseaseSymptomAssociationService.get_diseases_by_symptom: no ORDER BY
GetDiseasesBySymptom(s, y) == ListByEndpoint(s, "get_diseases_by_symptom", "sympgan_disease_symptom_associations", "symptom_id", y, "disease_id", "sympgan_diseases", Perms(JoinRows(db, "sympgan_disease_symptom_associations", "symptom_id", y, "disease_id", "sympgan_diseases")))

(***************************************************************************)
(* Specifications of the store                                             *)
(***************************************************************************)
CondRoots == {"conditions", "exclusion_methods", "treatment_plans"}

\* the tables one request family works on
CoarseFamilies == {CondRoots \cup {"condition_exclusion_methods", "condition_treatment_plans"}, {"conversations", "messages"}, {"sympgan_diseases", "sympgan_symptoms", "sympgan_disease_symptom_associations"}}

\* the same, the two link tables of a condition taken one at a time
FineFamilies == {{"conditions", "exclusion_methods", "condition_exclusion_methods"}, {"conditions", "treatment_plans", "condition_treatment_plans"}, {"conversations", "messages"}, {"sympgan_diseases", "sympgan_symptoms", "sympgan_disease_symptom_associations"}}

\* S: the callers; Fams: the families; P, Src: the payloads and provenance
\* tags a caller may supply
NextDb(S, Fams, P, Src) ==
    \E s \in S :
        \/ \E t \in RootTables : \E data \in Inputs(t, Names, Names) : Free(s) /\ Scoped(Fams, t) /\ Create(s, t, data)
        \/ \E t \in RootTables \cup {"messages"}, id \in ArgIds : Free(s) /\ Scoped(Fams, t) /\ DeleteGet(s, t, id)
        \/ DeleteCommit(s)
        \/ Release(s)
        \/ \E c \in ArgIds, m \in ArgIds : Free(s) /\ Scoped(Fams, "condition_exclusion_methods") /\ AddCemGetCondition(s, c, m)
        \/ AddCemGetMethod(s)
        \/ AddCemCheckExisting(s)
        \/ AddCemCommit(s)
        \/ \E c \in ArgIds, p \in ArgIds, x \in P : Free(s) /\ Scoped(Fams, "condition_treatment_plans") /\ AddCtpGetCondition(s, c, p, x)
        \/ AddCtpGetPlan(s)
        \/ AddCtpCommit(s)
        \/ \E t \in {"condition_exclusion_methods", "condition_treatment_plans"}, id \in ArgAssocIds : Free(s) /\ Scoped(Fams, t) /\ RemoveGet(s, t, id)
        \/ RemoveCommit(s)
        \/ \E d \in ArgIds, y \in ArgIds, src \in Src : Free(s) /\ Scoped(Fams, "sympgan_disease_symptom_associations") /\ CreateAssociationGetDisease(s, d, y, src)
        \/ CreateAssociationGetSymptom(s)
        \/ \E cf \in ClosedFetch : CreateAssociationCheckExisting(s, cf)
        \/ CreateAssociationCommit(s)
        \/ \E c \in ArgIds, n \in Names : Free(s) /\ Scoped(Fams, "messages") /\ MessageCreateGetConversation(s, c, n)
        \/ MessageCreateCommit(s)

(***************************************************************************)
(* SQLiteClientWrapper                                                     *)
(*   engine, session_factory: 0 is None, n > 0 is the n-th engine built    *)
(*   (a session factory is named by the engine it is bound to)             *)
(***************************************************************************)
TaskIdle == [op |-> "none", pc |-> "idle", conn |-> 0, session |-> 0, outcome |-> "none"]

TaskFree(t) == task[t].pc \in {"idle", "done"}

TaskCall(op, pc, conn) == [TaskIdle EXCEPT !.op = op, !.pc = pc, !.conn = conn]

TaskReturn(op, outcome, session) == [TaskIdle EXCEPT !.op = op, !.pc = "done", !.outcome = outcome, !.session = session]

\* (variant: the guard is missing)
EnsureNeverReturnsEarly(init) == FALSE

\* _ensure_tables_exist: "if cls._initialized: return"
EnsureReturnsEarly(init) == init

\* _ensure_tables_exist up to its first await: build the engine and the
\* session factory bound to it, then enter engine.begin()
EnsureBegin(t, op) ==
    /\ engines_created < MaxEngines
    /\ engines_created' = engines_created + 1
    /\ engine' = engines_created + 1
    /\ session_factory' = engines_created + 1
    /\ task' = [task EXCEPT ![t] = TaskCall(op, "create_all", engines_created + 1)]
    /\ UNCHANGED <<initialized, create_all_runs>>

\* get_session once the wrapper is initialized (no await):
\* "if cls._session_factory is None: raise"; "return cls._session_factory()"
SessionOrError(op, factory) == IF factory = 0 THEN TaskReturn(op, "SQLiteConnectionError", 0) ELSE TaskReturn(op, "session", factory)

\* _ensure_tables_exist fails before its first await: create_async_engine
\* or async_sessionmaker raises and no class attribute is assigned;
\* get_session re-raises as SQLiteConnectionError, health_check returns False
EnsureEngineFails(t, op) ==
    /\ TaskFree(t) /\ ~EnsureReturnsEarly(initialized)
    /\ task' = [task EXCEPT ![t] = TaskReturn(op, IF op = "get_session" THEN "SQLiteConnectionError" ELSE "false", 0)]
    /\ UNCHANGED <<engine, session_factory, initialized, engines_created, create_all_runs, dbvars>>

\* get_session, called
GetSession(t) ==
    /\ TaskFree(t)
    /\ IF EnsureReturnsEarly(initialized)
       THEN /\ task' = [task EXCEPT ![t] = SessionOrError("get_session", session_factory)]
            /\ UNCHANGED <<engine, session_factory, initialized, engines_created, create_all_runs>>
       ELSE EnsureBegin(t, "get_session")
    /\ UNCHANGED dbvars

\* (variant: the flag is set whether create_all succeeded or not)
GetSessionCreateAllMarked(t, ok) ==
    /\ task[t].op = "get_session" /\ task[t].pc = "create_all"
    /\ initialized' = TRUE
    /\ create_all_runs' = create_all_runs + 1
    /\ task' = [task EXCEPT ![t] = SessionOrError("get_session", session_factory)]
    /\ UNCHANGED <<engine, session_factory, engines_created, dbvars>>

\* get_session resumed: conn.run_sync(Base.metadata.create_all) is over;
\* "cls._initialized = True", then the session from whatever factory the
\* class holds now. A failure is re-raised as SQLiteConnectionError
GetSessionCreateAll(t, ok) ==
    /\ task[t].op = "get_session" /\ task[t].pc = "create_all"
    /\ IF ok
       THEN /\ initialized' = TRUE
            /\ create_all_runs' = create_all_runs + 1
            /\ task' = [task EXCEPT ![t] = SessionOrError("get_session", session_factory)]
       ELSE /\ task' = [task EXCEPT ![t] = TaskReturn("get_session", "SQLiteConnectionError", 0)]
            /\ UNCHANGED <<initialized, create_all_runs>>
    /\ UNCHANGED <<engine, session_factory, engines_created, dbvars>>

\* health_check, called: initialize if needed, else take a session and
\* await session.execute("SELECT 1")
HealthCheck(t) ==
    /\ TaskFree(t)
    /\ IF EnsureReturnsEarly(initialized)
       THEN /\ task' = [task EXCEPT ![t] = IF session_factory = 0 THEN TaskReturn("health_check", "false", 0) ELSE [TaskCall("health_check", "execute", 0) EXCEPT !.session = session_factory]]
            /\ UNCHANGED <<engine, session_factory, initialized, engines_created, create_all_runs>>
       ELSE EnsureBegin(t, "health_check")
    /\ UNCHANGED dbvars

\* health_check resumed after create_all: "session = await cls.get_session()"
HealthCheckCreateAll(t, ok) ==
    /\ task[t].op = "health_check" /\ task[t].pc = "create_all"
    /\ IF ok
       THEN /\ initialized' = TRUE
            /\ create_all_runs' = create_all_runs + 1
            /\ task' = [task EXCEPT ![t] = IF session_factory = 0 THEN TaskReturn("health_check", "false", 0) ELSE [TaskCall("health_check", "execute", 0) EXCEPT !.session = session_factory]]
       ELSE /\ task' = [task EXCEPT ![t] = TaskReturn("health_check", "false", 0)]
            /\ UNCHANGED <<initialized, create_all_runs>>
    /\ UNCHANGED <<engine, session_factory, engines_created, dbvars>>

\* session.execute("SELECT 1"): the statement is a plain str, not
\* text("SELECT 1"); the library refuses it (ArgumentError) before it
\* reaches the engine, whether the engine would answer (ok) or not
PlainStringExecutes(ok) == FALSE

\* health_check resumed after session.execute: "await session.close()" and
\* return True, or "except Exception: return False", which leaves the
\* session as it is. ok: the storage engine answers a round trip. The
\* session field of a task is the open session it holds, 0 if none
HealthCheckExecute(t, ok) ==
    /\ task[t].op = "health_check" /\ task[t].pc = "execute"
    /\ task' = [task EXCEPT ![t] = IF PlainStringExecutes(ok) THEN TaskReturn("health_check", "true", 0) ELSE TaskReturn("health_check", "false", @.session)]
    /\ UNCHANGED <<engine, session_factory, initialized, engines_created, create_all_runs, dbvars>>

\* get_db_session: "async with await SQLiteClientWrapper.get_session() as
\* session: yield session"; the request's work ends or raises, and leaving
\* the block closes the session
GetDbSessionExit(t, raised) ==
    /\ task[t].op = "get_session" /\ task[t].pc = "done" /\ task[t].outcome = "session"
    /\ task' = [task EXCEPT ![t] = TaskReturn("get_db_session", IF raised THEN "raised" ELSE "ok", 0)]
    /\ UNCHANGED <<engine, session_factory, initialized, engines_created, create_all_runs, dbvars>>

\* close, called: "if cls._engine is not None: await cls._engine.dispose()"
Close(t) ==
    /\ TaskFree(t)
    /\ task' = [task EXCEPT ![t] = IF engine = 0 THEN TaskReturn("close", "none", 0) ELSE TaskCall("close", "dispose", engine)]
    /\ UNCHANGED <<engine, session_factory, initialized, engines_created, create_all_runs, dbvars>>

\* (variant: _initialized is not reset)
CloseResetKeepsFlag(t) ==
    /\ task[t].op = "close" /\ task[t].pc = "dispose"
    /\ engine' = 0 /\ session_factory' = 0
    /\ task' = [task EXCEPT ![t] = TaskReturn("close", "none", 0)]
    /\ UNCHANGED <<initialized, engines_created, create_all_runs, dbvars>>

\* close resumed after dispose: reset the class attributes
CloseReset(t) ==
    /\ task[t].op = "close" /\ task[t].pc = "dispose"
    /\ initialized' = FALSE /\ engine' = 0 /\ session_factory' = 0
    /\ task' = [task EXCEPT ![t] = TaskReturn("close", "none", 0)]
    /\ UNCHANGED <<engines_created, create_all_runs, dbvars>>

NextWrapper ==
    \E t \in Tasks :
        \/ GetSession(t)
        \/ \E op \in {"get_session", "health_check"} : EnsureEngineFails(t, op)
        \/ \E ok \in BOOLEAN : GetSessionCreateAll(t, ok)
        \/ HealthCheck(t)
        \/ \E ok \in BOOLEAN : HealthCheckCreateAll(t, ok)
        \/ \E ok \in BOOLEAN : HealthCheckExecute(t, ok)
        \/ \E raised \in BOOLEAN : GetDbSessionExit(t, raised)
        \/ Close(t)
        \/ CloseReset(t)

InitDb ==
    /\ db = [t \in Tables |-> {}]
    /\ sess = [s \in Sessions |-> Idle]

InitWrapper ==
    /\ engine = 0 /\ session_factory = 0 /\ initialized = FALSE
    /\ engines_created = 0 /\ create_all_runs = 0
    /\ task = [t \in Tasks |-> TaskIdle]

Init == InitDb /\ InitWrapper

\* concurrent callers, each on its own session
Next == NextDb(Sessions, FineFamilies, {NoPayload}, {None})

Spec == Init /\ [][Next]_vars

\* one caller, its calls in sequence
NextSeq == NextDb({1}, CoarseFamilies, Payloads, Sources)

SpecSeq == Init /\ [][NextSeq]_vars

\* concurrent tasks on the wrapper
SpecWrapper == Init /\ [][NextWrapper]_vars

(***************************************************************************)
(* Queries and updates on populated stores                                 *)
(***************************************************************************)
\* the i-th row of root table t as create stores it
Stored(t, i) ==
    IF t \in TaxonomyTables THEN [id |-> i, cui |-> i, name |-> "a", description |-> "a", updated_at |-> 0]
    ELSE IF t = "conversations" THEN [id |-> i, name |-> "a", description |-> "a", updated_at |-> 0, started_at |-> i]
    ELSE [id |-> i, name |-> "a", description |-> "a", updated_at |-> 0]

RootRows(t, I) == {Stored(t, i) : i \in I}

Empty == [t \in Tables |-> {}]

\* one root table with any rows left of MaxRows created
RootStores == {[Empty EXCEPT ![t] = RootRows(t, I)] : t \in RootTables, I \in SUBSET (1..MaxRows)}

EndPairs == (1..MaxId) \X (1..MaxId)

\* MaxId conditions and treatment plans, up to MaxRows links with any
\* endpoints (a pair may repeat) and priorities
CtpStores == UNION {{[Empty EXCEPT !["conditions"] = RootRows("conditions", 1..MaxId), !["treatment_plans"] = RootRows("treatment_plans", 1..MaxId),
                                  !["condition_treatment_plans"] = {[id |-> i, condition_id |-> f[i][1][1], treatment_plan_id |-> f[i][1][2], is_primary |-> FALSE, priority |-> f[i][2], notes |-> None] : i \in 1..k}]
                     : f \in [1..k -> EndPairs \X (1..MaxRows)]} : k \in 0..MaxRows}

\* MaxId conditions and exclusion methods, up to MaxRows links of distinct
\* pairs, created in any order
CemStores == UNION {{[Empty EXCEPT !["conditions"] = RootRows("conditions", 1..MaxId), !["exclusion_methods"] = RootRows("exclusion_methods", 1..MaxId),
                                  !["condition_exclusion_methods"] = {[id |-> i, condition_id |-> f[i][1], exclusion_method_id |-> f[i][2]] : i \in 1..k}]
                     : f \in {g \in [1..k -> EndPairs] : \A i, j \in 1..k : i # j => g[i] # g[j]}} : k \in 0..MaxRows}

DsaStores == UNION {{[Empty EXCEPT !["sympgan_diseases"] = RootRows("sympgan_diseases", 1..MaxId), !["sympgan_symptoms"] = RootRows("sympgan_symptoms", 1..MaxId),
                                  !["sympgan_disease_symptom_associations"] = {[id |-> i, disease_id |-> f[i][1], symptom_id |-> f[i][2], source |-> None] : i \in 1..k}]
                     : f \in {g \in [1..k -> EndPairs] : \A i, j \in 1..k : i # j => g[i] # g[j]}} : k \in 0..MaxRows}

\* MaxId conversations, up to MaxRows messages sent in id order
ConversationStores == UNION {{[Empty EXCEPT !["conversations"] = RootRows("conversations", 1..MaxId),
                                           !["messages"] = {[id |-> i, conversation_id |-> f[i], name |-> "a", sent_at |-> i] : i \in 1..k}]
                              : f \in [1..k -> 1..MaxId]} : k \in 0..MaxRows}

Stores == RootStores \cup CtpStores \cup CemStores \cup DsaStores \cup ConversationStores

QueryNames == {"a", "b"}

\* update_data of ConditionUpdate and its copies: the fields the caller set
RootUpdates == {[name |-> "b"], [description |-> "b"], [name |-> None], <<>>}

\* update_data of ConditionTreatmentPlanUpdate
LinkUpdates == {[priority |-> p] : p \in {1, MaxRows + 1}} \cup {[notes |-> "n"], [is_primary |-> TRUE, notes |-> "n"]}

\* Bound on the explored store: no table of links (or messages) holds more
\* than n rows
Links(n) == \A u \in JunctionTables \cup {"messages"} : Cardinality(db[u]) <= n

\* Bound on the explored store: t is the one table populated
Alone(t) == \A u \in Tables \ {t} : db[u] = {}

\* Bound on the explored store: a query on a table of links runs on the
\* stores that populate no table outside the family of t
Within(t) == \E F \in FineFamilies : t \in F /\ \A u \in Tables \ F : db[u] = {}

\* Bound on the explored store: in a store with links the first row of a
\* root table is the one updated, and at most one link is present
UpdateScope(t, id) == Alone(t) \/ (id = 1 /\ Links(1))

\* Bound on the explored store: a second caller runs between two calls of
\* the first and only to read back what a create of the first has returned
Created(s) == sess[s].op = "create" /\ sess[s].pc = "done" /\ sess[s].outcome = "ok"

\* Bound on the explored store: the second caller runs no call
Quiet == sess[2] = Idle

\* one caller reads and updates a store that earlier calls have populated;
\* a second one reads back the rows the first has created
InitQuery == db \in Stores /\ sess = [s \in Sessions |-> Idle] /\ InitWrapper

NextQuery ==
    \/ \E s \in {1} :
        \/ Quiet /\ \E t \in RootTables : \E data \in Inputs(t, QueryNames, {"a"}) : Alone(t) /\ Create(s, t, data)
        \/ Quiet /\ \E t \in RootTables, id \in 1..MaxId, data \in RootUpdates : UpdateScope(t, id) /\ UpdateGet(s, "update", t, id, data)
        \/ Quiet /\ UpdateCommit(s, "update")
        \/ Quiet /\ \E id \in 1..MaxRows, data \in LinkUpdates : ("priority" \in DOMAIN data \/ Links(1)) /\ UpdateGet(s, "update_association", "condition_treatment_plans", id, data)
        \/ Quiet /\ UpdateCommit(s, "update_association")
        \/ Quiet /\ \E t \in RootTables, skip \in 0..MaxRows, limit \in 1..MaxRows : Alone(t) /\ ListCount(s, t, skip, limit)
        \/ Quiet /\ ListPage(s)
        \/ Quiet /\ \E c \in 1..MaxId, skip \in 0..MaxRows, limit \in 1..MaxRows : Within("messages") /\ ListByConversationCount(s, c, skip, limit)
        \/ Quiet /\ ListByConversationPage(s)
        \/ Quiet /\ \E c \in 1..MaxId : Within("condition_exclusion_methods") /\ GetConditionExclusionMethods(s, c)
        \/ Quiet /\ \E c \in 1..MaxId : Within("condition_treatment_plans") /\ GetConditionTreatmentPlans(s, c)
        \/ Quiet /\ \E d \in 1..MaxId : Within("sympgan_disease_symptom_associations") /\ GetSymptomsByDisease(s, d)
        \/ Quiet /\ \E y \in 1..MaxId : Within("sympgan_disease_symptom_associations") /\ GetDiseasesBySymptom(s, y)
        \/ Quiet /\ \E t \in RootTables, id \in 1..MaxId + 1 : Alone(t) /\ GetById(s, t, id)
        \/ Quiet /\ \E t \in RootTables, id \in 1..MaxRows : Alone(t) /\ DeleteGet(s, t, id)
        \/ Quiet /\ DeleteCommit(s)
        \/ Quiet /\ \E t \in {"condition_exclusion_methods", "condition_treatment_plans"}, id \in 1..MaxRows : Within(t) /\ RemoveGet(s, t, id)
        \/ Quiet /\ RemoveCommit(s)
        \/ Quiet /\ Release(s)
    \/ Created(1) /\ Quiet /\ GetById(2, sess[1].t, sess[1].ret)
    \/ Release(2)

SpecQuery == InitQuery /\ [][NextQuery]_vars

(***************************************************************************)
(* Bulk loader (scripts/import_sympgan_data.py)                            *)
(***************************************************************************)
\* rows committed together (BATCH_SIZE, 1000 in the script)
BatchSize == 2

\* longest disease file read; the symptom and association files are one
\* row shorter
MaxFileRows == 3

\* the files as read_tsv returns them: the CUI of each disease row and of
\* each symptom row, the disease and symptom CUI of each association row;
\* an association may name a CUI that no file of diseases holds
FileSeqs(S, n) == UNION {[1..k -> S] : k \in 0..n}

Files == [sympgan_diseases : FileSeqs(Cuis, MaxFileRows), sympgan_symptoms : FileSeqs(Cuis, MaxFileRows - 1),
          sympgan_disease_symptom_associations : FileSeqs((1..MaxCui + 1) \X Cuis, MaxFileRows - 1)]

\* the script's session in main(): the table being imported, the rows read
\* so far, the objects added and not committed, the CUI to id maps, and
\* the store as the previous run of the script left it
Loader(files, run, before) == [op |-> "import", pc |-> "rows", t |-> "sympgan_diseases", pos |-> 0, run |-> run, files |-> files,
                               pending |-> [u \in Tables |-> {}], dmap |-> <<>>, smap |-> <<>>, before |-> before,
                               outcome |-> "none", pending_rollback |-> FALSE]

\* (variant: the session factory is built with autoflush=False)
AutoflushOff(pending) == [u \in Tables |-> {}]

\* async_sessionmaker(bind, class_, expire_on_commit=False): autoflush keeps
\* its default True, so a query first flushes the objects added before it
\* and sees their rows
Autoflushed(pending) == pending

\* the rows of table u a query of the loader sees
Visible(c, u) == db[u] \cup Autoflushed(c.pending)[u]

\* dict assignment m[k] = v
Put(m, k, v) == [x \in DOMAIN m \cup {k} |-> IF x = k THEN v ELSE m[x]]

\* result.scalar() / scalars().first() of a select by CUI: the first row
First1(rows) == CHOOSE r \in rows : \A q \in rows : r.id <= q.id

\* the CUI map of the table being imported
MapOf(c) == IF c.t = "sympgan_diseases" THEN c.dmap ELSE c.smap

WithMap(c, m) == IF c.t = "sympgan_diseases" THEN [c EXCEPT !.dmap = m] ELSE [c EXCEPT !.smap = m]

\* after a row: "await session.commit()" at the end of a batch
AfterRow(c) == [c EXCEPT !.pos = c.pos + 1, !.pc = IF (c.pos + 1) % BatchSize = 0 \/ c.pos + 1 = Len(c.files[c.t]) THEN "commit" ELSE "rows"]

\* import_diseases / import_symptoms, one row: select by CUI; if found,
\* record its id and skip; else session.add(new row)
ImportRow(s) ==
    LET c == sess[s]
    IN /\ c.op = "import" /\ c.pc = "rows" /\ c.t \in TaxonomyTables /\ c.pos < Len(c.files[c.t])
       /\ LET cui == c.files[c.t][c.pos + 1]
              found == {r \in Visible(c, c.t) : r.cui = cui}
              all == [db EXCEPT ![c.t] = @ \cup c.pending[c.t]]
          IN sess' = [sess EXCEPT ![s] = IF found # {} THEN AfterRow(WithMap(c, Put(MapOf(c), cui, First1(found).id)))
                                          ELSE AfterRow([c EXCEPT !.pending[c.t] = @ \cup {NewRow(all, c.t, [cui |-> cui, name |-> "a", description |-> "a"])}])]
       /\ UNCHANGED <<db, wrappervars>>

\* import_associations, one row: ids from the maps (skip when a CUI is
\* missing), select by the pair; if found skip; else session.add
ImportAssociation(s) ==
    LET c == sess[s]
        jt == "sympgan_disease_symptom_associations"
    IN /\ c.op = "import" /\ c.pc = "rows" /\ c.t = jt /\ c.pos < Len(c.files[jt])
       /\ LET row == c.files[jt][c.pos + 1]
              all == [db EXCEPT ![jt] = @ \cup c.pending[jt]]
          IN sess' = [sess EXCEPT ![s] =
                 IF row[1] \notin DOMAIN c.dmap \/ row[2] \notin DOMAIN c.smap THEN AfterRow(c)
                 ELSE IF \E r \in Visible(c, jt) : r.disease_id = c.dmap[row[1]] /\ r.symptom_id = c.smap[row[2]] THEN AfterRow(c)
                 ELSE AfterRow([c EXCEPT !.pending[jt] = @ \cup {[id |-> NextId(all[jt]), disease_id |-> c.dmap[row[1]], symptom_id |-> c.smap[row[2]], source |-> None]}])]
       /\ UNCHANGED <<db, wrappervars>>

\* the store with the added rows written
Flushed(c) == [u \in Tables |-> db[u] \cup c.pending[u]]

\* "await session.commit()": the added rows are written; a row the store
\* refuses raises out of the script
ImportCommit(s) ==
    LET c == sess[s]
    IN /\ c.op = "import" /\ c.pc = "commit"
       /\ IF \A u \in Tables : \A r \in c.pending[u] : UniqueOk(Flushed(c), u, r) /\ FKOk(Flushed(c), u, r)
          THEN /\ db' = Flushed(c)
               /\ sess' = [sess EXCEPT ![s] = [c EXCEPT !.pending = [u \in Tables |-> {}], !.pc = IF c.t \in TaxonomyTables THEN "map" ELSE "rows"]]
          ELSE /\ db' = db
               /\ sess' = [sess EXCEPT ![s] = [c EXCEPT !.pc = "done", !.outcome = "failed"]]
       /\ UNCHANGED wrappervars

\* the rows of the batch just committed
Batch(c) == {i \in 1..c.pos : (i - 1) \div BatchSize = (c.pos - 1) \div BatchSize}

\* "for row in batch: if cui not in cui_to_id: cui_to_id[cui] = select id"
ImportMap(s) ==
    LET c == sess[s]
        new == {c.files[c.t][i] : i \in Batch(c)} \ DOMAIN MapOf(c)
    IN /\ c.op = "import" /\ c.pc = "map"
       /\ sess' = [sess EXCEPT ![s] = [WithMap(c, [x \in DOMAIN MapOf(c) \cup new |-> IF x \in new THEN First1({r \in db[c.t] : r.cui = x}).id ELSE MapOf(c)[x]]) EXCEPT !.pc = "rows"]]
       /\ UNCHANGED <<db, wrappervars>>

\* the file is exhausted: main() goes on to the next import, or ends
ImportEnd(s) ==
    LET c == sess[s]
    IN /\ c.op = "import" /\ c.pc = "rows" /\ c.pos = Len(c.files[c.t])
       /\ sess' = [sess EXCEPT ![s] = IF c.t = "sympgan_diseases" THEN [c EXCEPT !.t = "sympgan_symptoms", !.pos = 0]
                                       ELSE IF c.t = "sympgan_symptoms" THEN [c EXCEPT !.t = "sympgan_disease_symptom_associations", !.pos = 0]
                                       ELSE [c EXCEPT !.pc = "done", !.outcome = "ok"]]
       /\ UNCHANGED <<db, wrappervars>>

\* the script is run once more on the same files
ImportAgain(s) ==
    /\ sess[s].op = "import" /\ sess[s].pc = "done" /\ sess[s].outcome = "ok" /\ sess[s].run = 1
    /\ sess' = [sess EXCEPT ![s] = Loader(sess[s].files, 2, db)]
    /\ UNCHANGED <<db, wrappervars>>

\* the store the script finds: empty, or one disease already created
ImportStores == {Empty} \cup {[Empty EXCEPT !["sympgan_diseases"] = {[Stored("sympgan_diseases", 1) EXCEPT !.cui = c]}] : c \in Cuis}

InitImport == db \in ImportStores /\ (\E files \in Files : sess = [s \in Sessions |-> IF s = 1 THEN Loader(files, 1, db) ELSE Idle]) /\ InitWrapper

NextImport ==
    \E s \in {1} :
        \/ ImportRow(s)
        \/ ImportAssociation(s)
        \/ ImportCommit(s)
        \/ ImportMap(s)
        \/ ImportEnd(s)
        \/ ImportAgain(s)

SpecImport == InitImport /\ [][NextImport]_vars

(***************************************************************************)
(* list() beside a writer                                                  *)
(***************************************************************************)
\* The two selects of list() are two awaits on one session.  The sqlite
\* driver opens no transaction for a select, so each reads the store as
\* committed when it runs; another session may commit between them.

\* the reader has counted and not yet read its page
Counted(s) == sess[s].op \in {"list", "list_by_conversation"} /\ sess[s].pc = "page"

InitListRace == db \in RootStores \cup ConversationStores /\ sess = [s \in Sessions |-> Idle] /\ InitWrapper

NextListRace ==
    \/ \E t \in RootTables, skip \in 0..1, limit \in 1..MaxRows : sess[1] = Idle /\ sess[2] = Idle /\ Alone(t) /\ ListCount(1, t, skip, limit)
    \/ ListPage(1)
    \/ \E c \in 1..MaxId, skip \in 0..1, limit \in 1..MaxRows : sess[1] = Idle /\ sess[2] = Idle /\ Within("messages") /\ ListByConversationCount(1, c, skip, limit)
    \/ ListByConversationPage(1)
    \/ Release(1)
    \/ \E data \in Inputs(sess[1].t, {"a"}, {"a"}) : Counted(1) /\ sess[1].op = "list" /\ sess[2] = Idle /\ Create(2, sess[1].t, data)
    \/ \E id \in 1..MaxRows : Counted(1) /\ sess[2] = Idle /\ DeleteGet(2, sess[1].t, id)
    \/ DeleteCommit(2)
    \/ \E n \in {"a"} : Counted(1) /\ sess[1].op = "list_by_conversation" /\ sess[2] = Idle /\ MessageCreateGetConversation(2, sess[1].a, n)
    \/ MessageCreateCommit(2)
    \/ Release(2)

SpecListRace == InitListRace /\ [][NextListRace]_vars

(***************************************************************************)
(* search_by_name                                                          *)
(***************************************************************************)
\* longest name stored and longest query searched, in characters
MaxName == 2

\* rows a taxonomy table holds when it is searched
MaxNamed == 2

\* names and queries are strings over a small alphabet with both cases of
\* a letter and the two characters LIKE reads as wildcards
Chars == {"a", "A", "_", "%"}

Strings == UNION {[1..k -> Chars] : k \in 0..MaxName}

\* lower() of one character
Lower1(ch) == IF ch = "A" THEN "a" ELSE ch

Lower(str) == [i \in DOMAIN str |-> Lower1(str[i])]

\* Python "sub.lower() in name.lower()"
Contains(name, sub) == \E i \in 0..(Len(name) - Len(sub)) : Lower(SubSeq(name, i + 1, i + Len(sub))) = Lower(sub)

\* the LIKE operator: % stands for any run of characters, _ for any one
\* character, every other character for itself
RECURSIVE Like(_, _)
Like(str, pattern) ==
    IF pattern = <<>> THEN str = <<>>
    ELSE IF Head(pattern) = "%" THEN \E k \in 0..Len(str) : Like(SubSeq(str, k + 1, Len(str)), Tail(pattern))
    ELSE str # <<>> /\ (Head(pattern) = "_" \/ Head(pattern) = Head(str)) /\ Like(Tail(str), Tail(pattern))

\* name.ilike(f"%{query}%"): lower(name) LIKE lower('%' || query || '%')
ILikeQuery(name, query) == Like(Lower(name), Lower(<<"%">> \o query \o <<"%">>))

\* search_by_name: select ... where name ilike %query% limit :limit, in
\* whatever order the storage engine scans the rows
SearchByName(s, t, query, limit) ==
    /\ Free(s)
    /\ \E f \in Perms({r \in db[t] : ILikeQuery(r.name, query)}) :
          sess' = [sess EXCEPT ![s] = [Return(Call(s, "search_by_name", t, 0, 0, NoPayload, None, "done"), "ok", 0)
                                         EXCEPT !.data = query, !.limit = limit, !.page = Slice(f, 0, limit)]]
    /\ UNCHANGED <<db, wrappervars>>

\* one taxonomy table holding up to MaxNamed named rows
NamedStores == {[Empty EXCEPT ![t] = {[Stored(t, i) EXCEPT !.name = names[i]] : i \in 1..k}] :
                   t \in TaxonomyTables, k \in 0..MaxNamed, names \in [1..MaxNamed -> Strings \ {<<>>}]}

InitSearch == db \in NamedStores /\ sess = [s \in Sessions |-> Idle] /\ InitWrapper

\* one search on a table that holds rows
Search(s) == \E t \in TaxonomyTables, query \in Strings, limit \in 1..MaxNamed : sess[s] = Idle /\ db[t] # {} /\ SearchByName(s, t, query, limit)

NextSearch ==
    \E s \in {1} :
        \/ Search(s)

SpecSearch == InitSearch /\ [][NextSearch]_vars

(***************************************************************************)
(* Properties                                                              *)
(***************************************************************************)
CemT == "condition_exclusion_methods"

CtpT == "condition_treatment_plans"

DsaT == "sympgan_disease_symptom_associations"

\* the step is session s finishing a call with this outcome
Finishes(s, outcome) == sess[s].pc # "done" /\ sess'[s].pc = "done" /\ sess'[s].outcome = outcome

\* C1: in every reachable state every row that carries a foreign key
\* (condition_exclusion_methods, condition_treatment_plans, the
\* disease-symptom associations, messages) references existing parents
C1_ReferentialIntegrity == \A fk \in ForeignKeys : \A r \in db[fk.table] : r[fk.column] \in Ids(db[fk.parent])

\* C1 witness: an add_association passed its checks, another session's
\* delete committed, and the insert was refused
C1_Witness == \E s1, s2 \in Sessions : /\ sess[s1].op = "add_cem" /\ sess[s1].pc = "done" /\ sess[s1].outcome = "failed"
                                       /\ sess[s2].op = "delete" /\ sess[s2].pc = "done" /\ sess[s2].outcome = "true"

NotFoundNoWrite(s) == sess'[s].pc = "done" /\ sess'[s].outcome = "not_found" /\ db' = db

\* the calls whose precondition is the existence of their endpoints
ExistenceOps == {"add_cem", "add_ctp", "create_dsa", "create_message"}

LeftParent(op) == CASE op = "add_cem" -> "conditions" [] op = "add_ctp" -> "conditions" [] op = "create_dsa" -> "sympgan_diseases" [] OTHER -> "conversations"

RightParent(op) == CASE op = "add_cem" -> "exclusion_methods" [] op = "add_ctp" -> "treatment_plans" [] OTHER -> "sympgan_symptoms"

\* C2: an add_association / create_association call goes past the lookup of
\* its left (right) endpoint only if that row exists, and a
\* MessageService.create call only if the conversation exists; otherwise the
\* lookup ends the call with a not-found error and no table changes
C2_MissingEndpointRejected ==
    [][\A s \in Sessions :
        /\ (Free(s) /\ sess'[s] # sess[s] /\ sess'[s].op \in ExistenceOps) =>
              IF sess'[s].pc = "done" THEN NotFoundNoWrite(s) ELSE Get(db, LeftParent(sess'[s].op), sess'[s].a) # {}
        /\ (sess[s].pc = "get_right" /\ sess'[s] # sess[s]) =>
              IF Get(db, RightParent(sess[s].op), sess[s].b) = {} THEN NotFoundNoWrite(s) ELSE (sess'[s].pc # "done" /\ db' = db)
      ]_vars

\* C2 witness: an add_association ended not-found while its junction table
\* held a row
C2_Witness == \E s \in Sessions : sess[s].op = "add_ctp" /\ sess[s].pc = "done" /\ sess[s].outcome = "not_found" /\ db[CtpT] # {}

CascadeRoots == {"conditions", "exclusion_methods", "treatment_plans", "sympgan_diseases", "sympgan_symptoms"}

\* C3: the commit of delete(id) on a Condition, ExclusionMethod,
\* TreatmentPlan, disease or symptom returns True, leaves no row referencing
\* id in any table, removes nothing else from the junction tables, and leaves
\* every other root table as it was
C3_CascadeDelete ==
    [][\A s \in Sessions :
        (DeleteCommit(s) /\ sess[s].t \in CascadeRoots) =>
            /\ Finishes(s, "true")
            /\ Get(db', sess[s].t, sess[s].a) = {}
            /\ \A u \in Tables : Referencing(db', u, sess[s].t, sess[s].a) = {}
            /\ \A u \in Tables \ {sess[s].t} : db'[u] = db[u] \ Referencing(db, u, sess[s].t, sess[s].a)
            /\ \A u \in RootTables \ {sess[s].t} : db'[u] = db[u]
      ]_vars

\* C3 witness: a Condition with exclusion-method and treatment-plan links was
\* deleted, and the exclusion methods and treatment plans are still there
C3_Witness == /\ sess[1].op = "delete" /\ sess[1].t = "conditions" /\ sess[1].pc = "done" /\ sess[1].outcome = "true"
              /\ sess[1].cascaded = {CemT, CtpT}
              /\ db["exclusion_methods"] # {} /\ db["treatment_plans"] # {}

\* C4: the commit of ConversationService.delete(id) returns True, leaves no
\* message of conversation id, MessageService.get finds none of its former
\* messages, and listing its messages answers not-found (404)
C4_ConversationCascade ==
    [][\A s \in Sessions :
        (DeleteCommit(s) /\ sess[s].t = "conversations") =>
            /\ Finishes(s, "true")
            /\ \A m \in db'["messages"] : m.conversation_id # sess[s].a
            /\ \A m \in db["messages"] : m.conversation_id = sess[s].a => MessageGet(db', m.id) = {}
            /\ ListConversationMessages(db', sess[s].a).status = 404
      ]_vars

\* C4 witness: a conversation that had messages was deleted
C4_Witness == sess[1].op = "delete" /\ sess[1].t = "conversations" /\ sess[1].pc = "done" /\ sess[1].outcome = "true" /\ sess[1].cascaded = {"messages"}

\* C5: in every reachable state at most one row exists for any (left, right)
\* pair of condition_exclusion_methods and of the disease-symptom associations
C5_PairUnique ==
    /\ \A r1, r2 \in db[CemT] : (r1.condition_id = r2.condition_id /\ r1.exclusion_method_id = r2.exclusion_method_id) => r1 = r2
    /\ \A r1, r2 \in db[DsaT] : (r1.disease_id = r2.disease_id /\ r1.symptom_id = r2.symptom_id) => r1 = r2

\* C6: add_association (condition/exclusion-method) in sequence: the insert
\* for a pair with no row succeeds and leaves exactly one row for the pair;
\* the lookup that finds the pair ends with "already exists" and writes
\* nothing, so one row remains
C6_CemDuplicateRejected ==
    [][\A s \in Sessions :
        /\ (AddCemCommit(s) /\ Pair(db, CemT, "condition_id", "exclusion_method_id", sess[s].a, sess[s].b) = {}) =>
              /\ Finishes(s, "ok")
              /\ Pair(db', CemT, "condition_id", "exclusion_method_id", sess[s].a, sess[s].b) = Get(db', CemT, sess'[s].ret)
              /\ Cardinality(Pair(db', CemT, "condition_id", "exclusion_method_id", sess[s].a, sess[s].b)) = 1
        /\ (sess[s].op = "add_cem" /\ sess[s].pc = "check_existing" /\ sess'[s] # sess[s] /\ Pair(db, CemT, "condition_id", "exclusion_method_id", sess[s].a, sess[s].b) # {}) =>
              /\ Finishes(s, "already_exists")
              /\ db' = db
              /\ Cardinality(Pair(db', CemT, "condition_id", "exclusion_method_id", sess[s].a, sess[s].b)) = 1
        /\ (sess[s].op = "add_cem" /\ sess[s].pc = "commit") => Pair(db, CemT, "condition_id", "exclusion_method_id", sess[s].a, sess[s].b) = {}
      ]_vars

\* C6 witness: a second add_association for a linked pair was refused
C6_Witness == sess[1].op = "add_cem" /\ sess[1].pc = "done" /\ sess[1].outcome = "already_exists" /\ Cardinality(db[CemT]) = 1

\* C7: an add_association (condition/treatment-plan) call that ends while
\* its pair already has a row ends with "already exists" and adds no row
C7_CtpDuplicateRejected ==
    [][\A s \in Sessions :
        (sess[s].op = "add_ctp" /\ sess[s].pc # "done" /\ sess'[s].pc = "done" /\ Pair(db, CtpT, "condition_id", "treatment_plan_id", sess[s].a, sess[s].b) # {}) =>
            (sess'[s].outcome = "already_exists" /\ db' = db)
      ]_vars

\* C8: a create_association (disease/symptom) call whose lookup finds the
\* pair returns the existing association (same id), raises nothing and
\* leaves the table unchanged
C8_DsaIdempotent ==
    [][\A s \in Sessions :
        (sess[s].op = "create_dsa" /\ sess[s].pc = "check_existing" /\ sess'[s] # sess[s] /\ Pair(db, DsaT, "disease_id", "symptom_id", sess[s].a, sess[s].b) # {}) =>
            /\ Finishes(s, "ok")
            /\ Get(db, DsaT, sess'[s].ret) = Pair(db, DsaT, "disease_id", "symptom_id", sess[s].a, sess[s].b)
            /\ db' = db
      ]_vars

\* C9: no step replaces a live engine or session factory by another one (an
\* engine is built only while the class holds none), and a session handed
\* out is bound to the engine the class holds
C9_InitOnce ==
    [][/\ engine # 0 => engine' \in {engine, 0}
       /\ session_factory # 0 => session_factory' \in {session_factory, 0}
       /\ engines_created' # engines_created => engine = 0
       /\ \A t \in Tasks : (task'[t] # task[t] /\ task'[t].outcome = "session") => task'[t].session = engine'
      ]_vars

\* C10: a get_session or health_check call made on an initialized wrapper
\* leaves the engine and the session factory unchanged, builds no engine and
\* does not run create_all
C10_InitIdempotent ==
    [][\A t \in Tasks : (initialized /\ (GetSession(t) \/ HealthCheck(t))) => UNCHANGED <<engine, session_factory, initialized, engines_created, create_all_runs>>]_vars

\* C10 witness: two calls have returned sessions of the one engine built,
\* after a single create_all
C10_Witness == /\ initialized /\ engines_created = 1 /\ create_all_runs = 1
               /\ \A t \in Tasks : task[t].op = "get_session" /\ task[t].outcome = "session" /\ task[t].session = engine

\* C11: a task that has left get_db_session (its work done or raised) or
\* health_check (whatever it returned) holds no open session
C11_SessionsReleased == \A t \in Tasks : (task[t].pc = "done" /\ task[t].op \in {"get_db_session", "health_check"}) => task[t].session = 0

\* session s has ended its call with a SQLiteServiceError, the store is as
\* before the call and the session takes a following call
RolledBack(s) == /\ db' = db
                 /\ sess'[s].pc = "done" /\ sess'[s].outcome \in ErrorOutcomes /\ Raised(sess'[s].outcome).type = "SQLiteServiceError"
                 /\ ~sess'[s].pending_rollback

AssociationOps == {"add_cem", "add_ctp", "create_dsa"}

\* what a caller can tell an error's kind by
Kind(e) == <<e.type, e.code>>

\* C13: when an add_association / create_association call ends with an
\* error, its kind differs from the kind of every other error outcome; and an
\* insert refused by a uniqueness constraint ends as "already exists"
C13_ErrorKinds ==
    [][\A s \in Sessions :
        /\ (sess'[s] # sess[s] /\ sess'[s].op \in AssociationOps /\ sess'[s].pc = "done" /\ sess'[s].outcome \in ErrorOutcomes) =>
              \A o \in ErrorOutcomes \ {sess'[s].outcome} : Kind(Raised(o)) # Kind(Raised(sess'[s].outcome))
        /\ (sess[s].op = "create_dsa" /\ CreateAssociationCommit(s) /\ ~UniqueOk(db, DsaT, [id |-> NextId(db[DsaT]), disease_id |-> sess[s].a, symptom_id |-> sess[s].b])) =>
              sess'[s].outcome = "already_exists"
      ]_vars

\* the links of condition c to treatment plans
PlanLinks(c) == {j \in db[CtpT] : j.condition_id = c}

\* C14: get_condition_treatment_plans(c) returns the plan of every link of c,
\* one per link, in an order of the links in which the priority never
\* increases; so it does for links whose priority update_association has set
C14_PriorityOrder ==
    [][\A s \in Sessions : \A c \in 1..MaxId :
        GetConditionTreatmentPlans(s, c) =>
            \E js \in Perms(PlanLinks(c)) :
                /\ Len(sess'[s].page) = Len(js)
                /\ \A i \in DOMAIN js : sess'[s].page[i].id = js[i].treatment_plan_id
                /\ \A i, j \in DOMAIN js : i < j => js[i].priority >= js[j].priority
      ]_vars

\* C14 witness: three links of one condition with three priorities were
\* listed, the link created last first because update_association gave it
\* the highest priority
C14_Witness ==
    /\ sess[1].op = "get_condition_treatment_plans" /\ sess[1].pc = "done" /\ Len(sess[1].page) = 3
    /\ Cardinality({j.priority : j \in PlanLinks(sess[1].a)}) = 3
    /\ \E j \in PlanLinks(sess[1].a) : j.id = 3 /\ j.priority = MaxRows + 1 /\ sess[1].page[1].id = j.treatment_plan_id /\ sess[1].page[2].id # j.treatment_plan_id

\* the list-by-endpoint operations: the junction table each reads, the
\* column it filters on, the column of the other endpoint and its table
EndpointQueries ==
    [get_condition_exclusion_methods |-> [jt |-> CemT, col |-> "condition_id", ecol |-> "exclusion_method_id", et |-> "exclusion_methods"],
     get_condition_treatment_plans |-> [jt |-> CtpT, col |-> "condition_id", ecol |-> "treatment_plan_id", et |-> "treatment_plans"],
     get_symptoms_by_disease |-> [jt |-> DsaT, col |-> "disease_id", ecol |-> "symptom_id", et |-> "sympgan_symptoms"],
     get_diseases_by_symptom |-> [jt |-> DsaT, col |-> "symptom_id", ecol |-> "disease_id", et |-> "sympgan_diseases"]]

\* session s has just returned from a list-by-endpoint operation
Listed(s) == sess'[s] # sess[s] /\ sess'[s].op \in DOMAIN EndpointQueries /\ sess'[s].pc = "done"

\* the entities linked to id by at least one row of the junction table of q
Linked(q, id) == {e \in db[q.et] : \E j \in db[q.jt] : j[q.col] = id /\ j[q.ecol] = e.id}

\* C15: a list-by-endpoint operation returns exactly the entities linked to
\* the given id by at least one junction row, each of them once
C15_EachEntityOnce ==
    [][\A s \in Sessions :
        Listed(s) =>
            LET page == sess'[s].page
            IN /\ {page[i] : i \in DOMAIN page} = Linked(EndpointQueries[sess'[s].op], sess'[s].a)
               /\ \A i, j \in DOMAIN page : i # j => page[i] # page[j]
      ]_vars

\* C16: a list-by-endpoint operation of a family without priority returns
\* the entities in ascending order of id
C16_AscendingIdentity ==
    [][\A s \in Sessions :
        (Listed(s) /\ sess'[s].op # "get_condition_treatment_plans") =>
            \A i, j \in DOMAIN sess'[s].page : i < j => sess'[s].page[i].id < sess'[s].page[j].id
      ]_vars

\* the rows a paginated listing of session s ranges over, in the state cur
Range(cur, c) == IF c.op = "list" THEN cur[c.t] ELSE {m \in cur["messages"] : m.conversation_id = c.a}

\* session s has just finished the named step of a paginated listing
Paged(s, pc) == sess'[s] # sess[s] /\ sess'[s].op \in {"list", "list_by_conversation"} /\ sess'[s].pc = pc

\* C17: list(skip, limit) and list_by_conversation(c, skip, limit) return as
\* total the number of stored rows (of the table, of the conversation), which
\* depends on the store only, and a page of min(limit, total - skip) rows,
\* none when skip >= total
C17_Pagination ==
    [][\A s \in Sessions :
        /\ Paged(s, "page") => sess'[s].total = Cardinality(Range(db, sess'[s]))
        /\ Paged(s, "done") =>
              /\ sess'[s].total = Cardinality(Range(db, sess'[s]))
              /\ Len(sess'[s].page) = IF sess'[s].skip >= sess'[s].total THEN 0 ELSE Min2(sess'[s].limit, sess'[s].total - sess'[s].skip)
      ]_vars

\* C17 witness: the last page of three rows, taken from the third row with
\* limit 2, holds one row
C17_Witness == sess[1].op = "list" /\ sess[1].pc = "done" /\ sess[1].total = 3 /\ sess[1].skip = 2 /\ sess[1].limit = 2 /\ Len(sess[1].page) = 1

\* r comes before q in the order of the listing of session record c
Before(c, r, q) ==
    IF c.op = "list_by_conversation" THEN r.sent_at < q.sent_at
    ELSE IF c.t = "conversations" THEN r.started_at > q.started_at
    ELSE r.id < q.id

C19_RoundTrip ==
    [][/\ \A s \in Sessions :
           (sess'[s] # sess[s] /\ sess'[s].op = "create" /\ sess'[s].outcome = "ok") =>
               \A data \in Inputs(sess'[s].t, QueryNames, {"a"}) :
                   Create(s, sess'[s].t, data) =>
                       /\ \A r \in db[sess'[s].t] : r.id # sess'[s].ret
                       /\ Cardinality(Get(db', sess'[s].t, sess'[s].ret)) = 1
                       /\ \A r \in Get(db', sess'[s].t, sess'[s].ret) : \A c \in DOMAIN data : r[c] = data[c]
       /\ \A s \in Sessions :
           (Created(1) /\ sess'[s] # sess[s] /\ sess'[s].op = "get" /\ sess'[s].t = sess[1].t /\ sess'[s].a = sess[1].ret) =>
               /\ sess'[s].outcome = "ok" /\ Len(sess'[s].page) = 1
               /\ sess'[s].page[1].id = sess[1].ret
               /\ sess'[s].page[1] \in db[sess[1].t]
      ]_vars

\* C19 witness: the second caller has read back, by the id returned, the
\* disease named "b" that the first caller created next to a stored one
C19_Witness ==
    /\ Created(1) /\ sess[1].t = "sympgan_diseases" /\ Cardinality(db["sympgan_diseases"]) = 2
    /\ sess[2].op = "get" /\ sess[2].pc = "done" /\ sess[2].outcome = "ok"
    /\ sess[2].page[1].id = sess[1].ret /\ sess[2].page[1].name = "b" /\ sess[2].page[1].cui = 2

\* session s has just returned from the commit of an update of row
\* sess[s].a of table sess[s].t with the fields sess[s].data
Updated(s) == sess[s].op \in {"update", "update_association"} /\ sess[s].pc = "commit" /\ sess'[s] # sess[s] /\ sess'[s].outcome = "ok"

\* the update of session s has replaced the supplied fields of its row and
\* has kept the fields outside data and derived, every other row of the
\* table and every other table
Replaced(s, derived) ==
    LET t == sess[s].t
        data == sess[s].data
        old == Row(db[t], sess[s].a)
    IN /\ Cardinality(Get(db', t, old.id)) = 1
       /\ \A new \in Get(db', t, old.id) :
             /\ DOMAIN new = DOMAIN old
             /\ \A c \in DOMAIN old : new[c] = IF c \in DOMAIN data THEN data[c] ELSE IF c \in derived THEN new[c] ELSE old[c]
       /\ db'[t] \ Get(db', t, old.id) = db[t] \ {old}
       /\ \A u \in Tables \ {t} : db'[u] = db[u]

\* an update of session s has just found no row with the id and returned None
Absent(s) == sess'[s] # sess[s] /\ sess'[s].op \in {"update", "update_association"} /\ sess'[s].pc = "done" /\ sess'[s].outcome = "none"

\* C20 (as stated): an update changes exactly the fields supplied; every
\* field not supplied, every other row and every junction row keep their
\* values; an update of an id that does not exist returns None and changes
\* nothing
C20_PartialUpdate ==
    [][\A s \in Sessions :
        /\ Updated(s) => Replaced(s, {})
        /\ Absent(s) => (db' = db /\ Get(db, sess'[s].t, sess'[s].a) = {})
      ]_vars

\* C20 (amended): as stated, except that the row's update timestamp, a
\* derived field, is not among the fields kept
C20_PartialUpdateButTimestamp ==
    [][\A s \in Sessions :
        /\ Updated(s) => Replaced(s, {"updated_at"})
        /\ Absent(s) => (db' = db /\ Get(db, sess'[s].t, sess'[s].a) = {})
      ]_vars

\* C20 witness: update has renamed condition 1, which a treatment plan is
\* linked to; its description, the other condition and the link are as
\* before, its update timestamp is new
C20_Witness ==
    /\ sess[1].op = "update" /\ sess[1].t = "conditions" /\ sess[1].pc = "done" /\ sess[1].outcome = "ok" /\ sess[1].ret = 1
    /\ \E r \in db["conditions"] : r.id = 1 /\ r.name = "b" /\ r.description = "a" /\ r.updated_at = 1
    /\ Stored("conditions", 2) \in db["conditions"]
    /\ \E j \in db[CtpT] : j.condition_id = 1

\* session s has just taken the named step of op: it has moved to pc
Stepped(s, op, pc) == sess'[s] # sess[s] /\ sess'[s].op = op /\ sess'[s].pc = pc

\* C21: delete(id) returns True exactly when a row with the id was stored
\* before the call, and then no row has the id (get(id) finds none); it
\* returns False when none was stored and leaves the store as it was; a
\* delete of the id just deleted returns False; get(id) of an id not stored
\* returns None and raises nothing
C21_DeleteReturns ==
    [][\A s \in Sessions :
        /\ (Stepped(s, "delete", "done") /\ sess[s].pc # "commit") =>
              (sess'[s].outcome = "false" /\ Get(db, sess'[s].t, sess'[s].a) = {} /\ db' = db)
        /\ Stepped(s, "delete", "commit") => (Get(db, sess'[s].t, sess'[s].a) # {} /\ db' = db)
        /\ (Stepped(s, "delete", "done") /\ sess[s].pc = "commit") =>
              (sess'[s].outcome = "true" /\ Get(db, sess'[s].t, sess'[s].a) # {} /\ Get(db', sess'[s].t, sess'[s].a) = {})
        /\ (sess[s].op = "delete" /\ sess[s].pc = "done" /\ sess[s].outcome = "true"
              /\ sess'[s] # sess[s] /\ sess'[s].op = "delete" /\ sess'[s].t = sess[s].t /\ sess'[s].a = sess[s].a) =>
              (sess'[s].pc = "done" /\ sess'[s].outcome = "false")
        /\ Stepped(s, "get", "done") =>
              /\ sess'[s].outcome = IF Get(db, sess'[s].t, sess'[s].a) = {} THEN "none" ELSE "ok"
              /\ sess'[s].outcome = "none" => sess'[s].page = <<>>
      ]_vars

\* C21 witness: the second of three conditions was deleted; get finds the
\* other two and not the second
C21_Witness ==
    /\ sess[1].op = "delete" /\ sess[1].t = "conditions" /\ sess[1].pc = "done" /\ sess[1].outcome = "true" /\ sess[1].a = 2
    /\ Ids(db["conditions"]) = {1, 3}

\* C22: remove_association(id) that finds the junction row deletes that row
\* and no other, not another row of the same pair either, keeps every
\* other table and returns True; one that finds no row returns False and
\* changes nothing
C22_RemoveOneRow ==
    [][\A s \in Sessions :
        /\ (Stepped(s, "remove", "done") /\ sess[s].pc # "commit") =>
              (sess'[s].outcome = "false" /\ Get(db, sess'[s].t, sess'[s].a) = {} /\ db' = db)
        /\ Stepped(s, "remove", "commit") => (Get(db, sess'[s].t, sess'[s].a) # {} /\ db' = db)
        /\ (Stepped(s, "remove", "done") /\ sess[s].pc = "commit") =>
              /\ sess'[s].outcome = "true"
              /\ db'[sess[s].t] = db[sess[s].t] \ Get(db, sess[s].t, sess[s].a)
              /\ Cardinality(db'[sess[s].t]) = Cardinality(db[sess[s].t]) - 1
              /\ \A u \in Tables \ {sess[s].t} : db'[u] = db[u]
      ]_vars

\* C22 witness: of two links of condition 1 to treatment plan 1 the first
\* was removed; the second, the condition and the plan are stored
C22_Witness ==
    /\ sess[1].op = "remove" /\ sess[1].t = CtpT /\ sess[1].pc = "done" /\ sess[1].outcome = "true" /\ sess[1].a = 1
    /\ \E j \in db[CtpT] : j.id = 2 /\ j.condition_id = 1 /\ j.treatment_plan_id = 1
    /\ Get(db, CtpT, 1) = {}
    /\ Stored("conditions", 1) \in db["conditions"] /\ Stored("treatment_plans", 1) \in db["treatment_plans"]

\* no task other than t is inside a call of the wrapper
Solo(t) == \A u \in Tasks \ {t} : TaskFree(u)

C24_InitFailureNotRetried ==
    [][\A t \in Tasks :
        /\ (GetSessionCreateAll(t, FALSE) \/ EnsureEngineFails(t, "get_session")) =>
              /\ task'[t].pc = "done" /\ task'[t].outcome = "SQLiteConnectionError" /\ task'[t].session = 0
              /\ initialized' = initialized /\ (Solo(t) /\ create_all_runs = 0 => ~initialized')
              /\ engines_created' = engines_created /\ create_all_runs' = create_all_runs
        /\ (GetSession(t) /\ ~initialized) => (task'[t].pc = "create_all" /\ engines_created' = engines_created + 1)
      ]_vars

\* C24 witness: the first initialization of the one task at work failed in
\* create_all; the wrapper is not marked initialized and the task's next
\* get_session is in its own attempt, with a second engine
C24_Witness ==
    /\ task[2] = TaskIdle /\ ~initialized /\ engines_created = 2 /\ create_all_runs = 0
    /\ task[1].op = "get_session" /\ task[1].pc = "create_all" /\ task[1].conn = 2

\* C25: health_check ends with a boolean and raises nothing; it returns
\* False when the initialization or the round trip fails and True when the
\* wrapper is initialized and the storage engine answers the round trip
C25_HealthCheckBoolean ==
    [][\A t \in Tasks :
        /\ (task'[t] # task[t] /\ task'[t].op = "health_check" /\ task'[t].pc = "done") => task'[t].outcome \in {"true", "false"}
        /\ (HealthCheckCreateAll(t, FALSE) \/ HealthCheckExecute(t, FALSE) \/ EnsureEngineFails(t, "health_check")) => task'[t].outcome = "false"
        /\ (HealthCheckExecute(t, TRUE) /\ initialized) => task'[t].outcome = "true"
      ]_vars

\* C29: a wrapper marked initialized holds an engine and a session factory,
\* and a get_session that finds it initialized returns a session
C29_InitializedHasFactory ==
    [][/\ initialized' => (engine' # 0 /\ session_factory' # 0)
       /\ \A t \in Tasks : (GetSession(t) /\ initialized) => task'[t].outcome = "session"
      ]_vars


\* the rows of a taxonomy table are one per CUI
OnePerCui(t) == \A r, q \in db[t] : r.cui = q.cui => r = q

\* the map sends every CUI of the file to the id of the row with that CUI
MapsFile(t, m, file) == \A i \in DOMAIN file : file[i] \in DOMAIN m /\ (\E r \in db[t] : r.cui = file[i] /\ r.id = m[file[i]])

\* C28: the bulk loader never fails on its input, keeps one row per CUI
\* and one association per (disease, symptom) pair whether a CUI repeats
\* within a batch or across batches; when it ends its maps send every CUI
\* of the disease and symptom files to the id of the row with that CUI,
\* every association joins two mapped ids of a row of the association
\* file, and a second run on the same files leaves the store as the first
\* run left it.
C28_LoaderDeduplicates ==
    LET c == sess[1]
        jt == "sympgan_disease_symptom_associations"
    IN /\ c.outcome # "failed"
       /\ \A t \in TaxonomyTables : OnePerCui(t)
       /\ \A r, q \in db[jt] : (r.disease_id = q.disease_id /\ r.symptom_id = q.symptom_id) => r = q
       /\ (c.pc = "done") =>
            /\ MapsFile("sympgan_diseases", c.dmap, c.files.sympgan_diseases)
            /\ MapsFile("sympgan_symptoms", c.smap, c.files.sympgan_symptoms)
            /\ \A r \in db[jt] : \E i \in DOMAIN c.files[jt] :
                   /\ c.files[jt][i][1] \in DOMAIN c.dmap /\ c.dmap[c.files[jt][i][1]] = r.disease_id
                   /\ c.files[jt][i][2] \in DOMAIN c.smap /\ c.smap[c.files[jt][i][2]] = r.symptom_id
            /\ \A i \in DOMAIN c.files[jt] : (c.files[jt][i][1] \in DOMAIN c.dmap /\ c.files[jt][i][2] \in DOMAIN c.smap) =>
                   \E r \in db[jt] : r.disease_id = c.dmap[c.files[jt][i][1]] /\ r.symptom_id = c.smap[c.files[jt][i][2]]
            /\ (c.run = 2 => db = c.before)

\* the second run has ended on files where CUI 1 comes twice in the first
\* batch of diseases and again in the second, the same pair comes twice
\* in the associations, and the store holds two diseases, one symptom and
\* one association
C28_Witness ==
    /\ sess[1].pc = "done" /\ sess[1].run = 2 /\ sess[1].outcome = "ok"
    /\ sess[1].files.sympgan_diseases = <<1, 1, 2>>
    /\ sess[1].files.sympgan_symptoms = <<1, 1>>
    /\ sess[1].files.sympgan_disease_symptom_associations = <<<<1, 1>>, <<1, 1>>>>
    /\ Cardinality(db["sympgan_diseases"]) = 2 /\ Cardinality(db["sympgan_symptoms"]) = 1
    /\ Cardinality(db["sympgan_disease_symptom_associations"]) = 1


\* C26: a search returns at most limit rows, each with a name that holds
\* the query as a substring whatever the case of the letters, for every
\* query, those with % or _ included; when it returns fewer than limit
\* rows, every stored row whose name holds the query is among them.
C26_SearchBySubstring ==
    \A s \in Sessions : (sess[s].op = "search_by_name" /\ sess[s].pc = "done") =>
        /\ Len(sess[s].page) <= sess[s].limit
        /\ \A i \in DOMAIN sess[s].page : Contains(sess[s].page[i].name, sess[s].data)
        /\ Len(sess[s].page) < sess[s].limit =>
               \A r \in db[sess[s].t] : Contains(r.name, sess[s].data) => \E i \in DOMAIN sess[s].page : sess[s].page[i] = r

\* C27: an id is never given twice: the id a create returns is greater
\* than every id given before to a row of that table, here the id of the
\* row the same caller has just deleted from it.
C27_IdsNeverReused ==
    [][\A s \in Sessions :
          (/\ sess[s].op = "delete" /\ sess[s].pc = "done" /\ sess[s].outcome = "true"
           /\ Stepped(s, "create", "done") /\ sess'[s].outcome = "ok" /\ sess'[s].t = sess[s].t)
          => sess'[s].ret > sess[s].a]_vars

\* C30: the total and the page a list returns fit one stored state even
\* when another session commits a create or a delete between the count
\* and the page: the page holds min(limit, max(0, total - skip)) rows.
C30_CountFitsPage ==
    \A s \in Sessions : (sess[s].op \in {"list", "list_by_conversation"} /\ sess[s].pc = "done") =>
        Len(sess[s].page) = Min2(sess[s].limit, IF sess[s].total > sess[s].skip THEN sess[s].total - sess[s].skip ELSE 0)

====
